---- MODULE Spec2Model ----
(***************************************************************************)
(* Model of src/main.py: a Telegram front end to an Ollama backend.        *)
(*                                                                         *)
(* Strings are sequences of atoms.  An atom is either one character or a   *)
(* fixed piece of text that the program never takes apart (a message       *)
(* template, a command name, the separator "setmodel:").                   *)
(*                                                                         *)
(* The Application is built with its defaults (main.py:174): updates are   *)
(* processed one at a time, every handler blocks, and the Ollama client is *)
(* the synchronous one (main.py:26), so a handler runs to its end before   *)
(* the next update is looked at.  Each handler is therefore one action;    *)
(* store_model alone is cut in two at its gateway pull, the call whose     *)
(* duration the concurrency requirement is about.                          *)
(***************************************************************************)
EXTENDS Integers, Sequences, FiniteSets, TLC

VARIABLES
    user_active_models, \* main.py:166, a dict: a function whose domain is the set of keys
    conversations,      \* ConversationHandler's (chat, user) -> state dict (main.py:177)
    catalog,            \* the models the Ollama backend holds, in listing order
    running,            \* the handler that is inside ollama_client.pull, or NoRun
    last,               \* what the handler of the most recent update did
    selected,           \* history: the model each user's latest selection action set
    cm_text,            \* chunk_message: argument text
    cm_size,            \* chunk_message: argument chunk_size
    cm_out,             \* chunk_message: the returned list
    cm_done,            \* chunk_message has returned
    queue,              \* SelectSpec: the updates delivered and not yet taken up
    answering,          \* SelectSpec: the selection handlers waiting in query.answer()
    overwritten,        \* SelectSpec, history: a selection replaced a different one
    reply_pool          \* the replies the backend's chat may give in this run

vars == <<user_active_models, conversations, catalog, running, last, selected,
          cm_text, cm_size, cm_out, cm_done, queue, answering, overwritten,
          reply_pool>>

botvars == <<user_active_models, conversations, catalog, running, last, selected>>
cmvars == <<cm_text, cm_size, cm_out, cm_done>>
selvars == <<queue, answering, overwritten>>
othervars == <<cmvars, selvars, reply_pool>>

----------------------------------------------------------------------------
(* Bounds of the model *)

MaxLen == 4        \* longest text given to chunk_message in ChunkSpec
MaxChunk == 5      \* largest chunk_size given to chunk_message in ChunkSpec
MaxQueue == 2      \* most updates waiting to be taken up in SelectSpec

----------------------------------------------------------------------------
(* Program constants *)

MAX_MESSAGE_LENGTH == 4096
ASKING_MODEL == 1
END == -1
DEFAULT_MODEL == <<"llama3">>

\* the handler as it would be with allow_reentry=True
allow_reentry_reenters == TRUE

\* ConversationHandler(...) at main.py:177-184 passes no allow_reentry: the
\* default, False
allow_reentry == FALSE

\* the application as it would be with concurrent_updates(True)
concurrent_updates_on == TRUE

\* Application.builder().token(TOKEN).build() at main.py:174 passes no
\* concurrent_updates, and ollama_client.pull is a synchronous call inside a
\* coroutine: no other update is handled while a handler is inside it
concurrent_updates == FALSE

----------------------------------------------------------------------------
(* Strings *)

Min(a, b) == IF a < b THEN a ELSE b

IsSpace(c) == c = " "

\* str.strip()
RECURSIVE lstrip(_)
lstrip(s) == IF s # <<>> /\ IsSpace(Head(s)) THEN lstrip(Tail(s)) ELSE s

RECURSIVE rstrip(_)
rstrip(s) ==
    IF s # <<>> /\ IsSpace(s[Len(s)]) THEN rstrip(SubSeq(s, 1, Len(s) - 1)) ELSE s

strip(s) == rstrip(lstrip(s))

\* str.split(sep) for a one-atom separator: the list of the parts between
\* the occurrences of sep
RECURSIVE split(_, _)
split(s, sep) ==
    IF \A i \in 1..Len(s) : s[i] # sep
    THEN <<s>>
    ELSE LET i == CHOOSE k \in 1..Len(s) :
                      s[k] = sep /\ \A j \in 1..(k - 1) : s[j] # sep
         IN  <<SubSeq(s, 1, i - 1)>> \o split(SubSeq(s, i + 1, Len(s)), sep)

\* sep.join(parts)
RECURSIVE join(_, _)
join(sep, parts) ==
    IF parts = <<>> THEN <<>>
    ELSE IF Len(parts) = 1 THEN parts[1]
    ELSE parts[1] \o sep \o join(sep, Tail(parts))

\* str.startswith(prefix) for a one-atom prefix
startswith(s, prefix) == s # <<>> /\ Head(s) = prefix

\* dict.get(key) is None / dict[key] = value
dict_set(d, k, v) == [x \in DOMAIN d \cup {k} |-> IF x = k THEN v ELSE d[x]]
dict_pop(d, k) == [x \in DOMAIN d \ {k} |-> d[x]]

----------------------------------------------------------------------------
(* chunk_message, main.py:136-138 *)

\* range(0, len(text), chunk_size) as the list of its values
range_starts(n, step) == [k \in 1..((n + step - 1) \div step) |-> (k - 1) * step]

\* text[i:i + chunk_size] with i counted from 0
slice(text, i, j) == SubSeq(text, i + 1, Min(j, Len(text)))

\* chunk_message with the slice one character short, text[i:i + chunk_size - 1]
chunk_message_short(text, chunk_size) ==
    LET starts == range_starts(Len(text), chunk_size)
    IN  [k \in 1..Len(starts) |-> slice(text, starts[k], starts[k] + chunk_size - 1)]

\* [text[i:i + chunk_size] for i in range(0, len(text), chunk_size)]
chunk_message(text, chunk_size) ==
    LET starts == range_starts(Len(text), chunk_size)
    IN  [k \in 1..Len(starts) |-> slice(text, starts[k], starts[k] + chunk_size)]

----------------------------------------------------------------------------
(* Updates delivered by Telegram *)

Users == {"u1", "u2"}
ChatTypes == {"private", "group"}      \* Chat.PRIVATE and any other chat type

Commands == {"/pullmodel", "/setmodel", "/cancel"}
PlainTexts == {<<"hello">>, <<" ", "x", " ">>}
ModelNames == {<<"x">>, <<"setmodel:", "latest">>}
InitialCatalogs == {<<>>, <<DEFAULT_MODEL, <<"setmodel:", "latest">>>>}
Replies == {<<>>, <<"h", "i">>}

\* the callback_data of the buttons set_model_command builds (main.py:71, 77)
button_data(model) == <<"setmodel:">> \o model
PULL_BUTTON == <<"pullmodel">>

\* a message update (new or edited) or a button press.  A group chat is one
\* chat shared by the users; a private chat is the user's own.
MessageUpdates ==
    [kind : {"message"}, user : Users, chat : ChatTypes, edited : BOOLEAN,
     data : {<<c>> : c \in Commands} \cup PlainTexts]
CallbackUpdates ==
    [kind : {"callback"}, user : Users, chat : ChatTypes, edited : {FALSE},
     data : {PULL_BUTTON} \cup {button_data(m) : m \in ModelNames}]
Updates == MessageUpdates \cup CallbackUpdates

NoUpdate == [kind |-> "none", user |-> "", chat |-> "", edited |-> FALSE, data |-> <<>>]

\* update.message or update.callback_query.message (main.py:41-44, 97): an
\* edited message is update.edited_message and update.message is None
has_message(e) == (e.kind = "message" /\ ~e.edited) \/ e.kind = "callback"

----------------------------------------------------------------------------
(* Texts the program sends *)

REFUSAL == <<"This command is only available in private chat.">>
SELECT_PROMPT == <<"Select a model to use for chat:">>
NO_MODELS == <<"There are currently no loaded models.">>
PULL_PROMPT ==
    <<"Tell me what new model you want to load into Ollama (type /cancel to quit).">>
PULL_OK == <<"(check mark) The model is now available in Ollama.">>
CANCELED == <<"Action canceled.">>
APOLOGY == <<"Sorry, I couldn't get a response from the model.">>
ERROR_DETAIL == <<"str(e)">>

downloading_text(model) == <<"(down arrow) ">> \o model \o <<" model is now being downloaded.">>
pull_failed_text(model) ==
    <<"(cross mark) Failed to pull model: ">> \o model
        \o <<". Please check the model name and try again.">>
selected_text(model) == <<"(check mark) Active model set to: *">> \o model \o <<"*">>
models_text(models) ==
    IF models # <<>>
    THEN <<"Downloaded Models:\n">>
             \o join(<<"\n">>, [k \in 1..Len(models) |-> <<"- ">> \o models[k]])
    ELSE NO_MODELS

\* calls of the Telegram API
reply_text(text) == [op |-> "reply_text", text |-> text, markup |-> <<>>]
reply_markup(text, markup) == [op |-> "reply_text", text |-> text, markup |-> markup]
edit_message_text(text) == [op |-> "edit_message_text", text |-> text, markup |-> <<>>]
answer == [op |-> "answer", text |-> <<>>, markup |-> <<>>]

\* calls of the Ollama client
call(fn, model, content, ok) ==
    [fn |-> fn, model |-> model, content |-> content, ok |-> ok]

\* what one handler run did
log(handler, e, sent, calls, raised) ==
    [handler |-> handler, event |-> e, sent |-> sent, calls |-> calls, raised |-> raised]

NoRun == [handler |-> "none", event |-> NoUpdate, model |-> <<>>]

----------------------------------------------------------------------------
(* Dispatch: Application.process_update over the handlers of main.py:186-192 *)

\* CommandHandler(c, ...): the message's first entity is the bot command c.
\* Its default filter is UpdateType.MESSAGES, which admits edited messages.
is_command(e, c) == e.kind = "message" /\ e.data # <<>> /\ Head(e.data) = c

\* filters.TEXT & ~filters.COMMAND, for new and edited messages
is_text(e) == e.kind = "message" /\ e.data # <<>> /\ Head(e.data) \notin Commands

\* CallbackQueryHandler(pull_model, pattern="^pullmodel$")
is_pull_button(e) == e.kind = "callback" /\ e.data = PULL_BUTTON

\* CallbackQueryHandler(handle_model_selection, pattern="^setmodel:")
is_select_button(e) == e.kind = "callback" /\ startswith(e.data, "setmodel:")

\* one conversation state for all users of a kind of chat
conversation_key_shared(e) == <<e.chat, "shared", "shared">>

\* the conversation key: per_chat and per_user are the defaults
conversation_key(e) == <<e.chat, IF e.chat = "private" THEN e.user ELSE "group", e.user>>

ConversationKeys ==
    {<<"private", u, u>> : u \in Users} \cup {<<"group", "group", u>> : u \in Users}

\* ConversationHandler.check_update: the handler of the conversation that
\* takes the update, or "none"
conversation_handler(e) ==
    LET key   == conversation_key(e)
        has   == key \in DOMAIN conversations
        entry == IF is_command(e, "/pullmodel") \/ is_pull_button(e)
                 THEN "pull_model" ELSE "none"
        state == IF has /\ conversations[key] = ASKING_MODEL /\ is_text(e)
                 THEN "store_model" ELSE "none"
        fallback == IF is_command(e, "/cancel") THEN "cancel" ELSE "none"
    IN  IF (~has \/ allow_reentry) /\ entry # "none" THEN entry
        ELSE IF ~has THEN "none"
        ELSE IF state # "none" THEN state
        ELSE fallback

\* the handlers with the relay registered before the conversation handler
route_echo_first(e) ==
    LET conv == conversation_handler(e)
    IN  IF is_text(e) THEN "echo"
        ELSE IF conv # "none" THEN conv
        ELSE IF is_command(e, "/setmodel") THEN "set_model_command"
        ELSE IF is_select_button(e) THEN "handle_model_selection"
        ELSE "none"

\* the first handler of group 0 whose check_update accepts the update
route(e) ==
    LET conv == conversation_handler(e)
    IN  IF conv # "none" THEN conv
        ELSE IF is_command(e, "/setmodel") THEN "set_model_command"
        ELSE IF is_select_button(e) THEN "handle_model_selection"
        ELSE IF is_text(e) THEN "echo"
        ELSE "none"

\* an update is taken up only when no handler is running, unless the
\* application processes updates concurrently
can_dispatch == concurrent_updates \/ (running = NoRun /\ answering = {})

\* ConversationHandler._update_state with the handler's return value
update_state(convs, key, new_state) ==
    IF new_state = END THEN dict_pop(convs, key) ELSE dict_set(convs, key, new_state)

----------------------------------------------------------------------------
(* The handlers *)

\* private_chat_only without its test of the chat type
private_chat_only_always(e) == [ok |-> TRUE, sent |-> <<>>]

\* private_chat_only, main.py:38-53: the result and the messages it sends
private_chat_only(e) ==
    IF ~has_message(e) THEN [ok |-> FALSE, sent |-> <<>>]
    ELSE IF e.chat # "private" THEN [ok |-> FALSE, sent |-> <<reply_text(REFUSAL)>>]
    ELSE [ok |-> TRUE, sent |-> <<>>]

\* the mark given to a model that is the active model of any user
is_active_for_anyone(user, model) ==
    \E x \in DOMAIN user_active_models : user_active_models[x] = model

\* user_active_models.get(user_id) == model.model, main.py:65, 70
is_active(user, model) ==
    user \in DOMAIN user_active_models /\ user_active_models[user] = model

\* the inline keyboard of main.py:68-77
keyboard(models, user) ==
    [k \in 1..Len(models) |->
        [text |-> models[k] \o <<" ">>
                      \o (IF is_active(user, models[k]) THEN <<"(check mark)">> ELSE <<>>),
         callback_data |-> button_data(models[k])]]
    \o <<[text |-> <<"Load a new model">>, callback_data |-> PULL_BUTTON]>>

\* set_model_command, main.py:55-80.  ollama_client.list() is not inside a
\* try: when it raises, the handler ends there.
SetModelCommand(e) ==
    /\ can_dispatch
    /\ route(e) = "set_model_command"
    /\ LET pco == private_chat_only(e)
       IN  IF ~pco.ok
           THEN last' = log("set_model_command", e, pco.sent, <<>>, FALSE)
           ELSE \E ok \in BOOLEAN :
                   last' = IF ok
                           THEN log("set_model_command", e,
                                    <<reply_markup(SELECT_PROMPT, keyboard(catalog, e.user))>>,
                                    <<call("list", <<>>, <<>>, TRUE)>>, FALSE)
                           ELSE log("set_model_command", e, <<>>,
                                    <<call("list", <<>>, <<>>, FALSE)>>, TRUE)
    /\ UNCHANGED <<user_active_models, conversations, catalog, running, selected, othervars>>

\* query.data.split("setmodel:")[1], main.py:88
selection_model(data) == split(data, "setmodel:")[2]

\* the store of main.py:90 with the model kept under every user's key
store_for_every_user(d, user, model) == [x \in Users |-> model]

\* user_active_models[user_id] = model, main.py:90
handle_model_selection_store(d, user, model) == dict_set(d, user, model)

\* handle_model_selection, main.py:82-91.  The pattern "^setmodel:" of its
\* registration makes the test of line 87 true.
HandleModelSelection(e) ==
    /\ can_dispatch
    /\ route(e) = "handle_model_selection"
    /\ LET model == selection_model(e.data)
       IN  /\ user_active_models' =
                  handle_model_selection_store(user_active_models, e.user, model)
           /\ selected' = dict_set(selected, e.user, model)
           /\ last' = log("handle_model_selection", e,
                          <<answer, edit_message_text(selected_text(model))>>, <<>>, FALSE)
    /\ UNCHANGED <<conversations, catalog, running, othervars>>

\* pull_model, main.py:93-111.  ollama_client.list() is not inside a try:
\* when it raises, the handler ends there and the conversation keeps its state.
PullModel(e) ==
    /\ can_dispatch
    /\ route(e) = "pull_model"
    /\ LET pco == private_chat_only(e)
           key == conversation_key(e)
       IN  IF ~pco.ok
           THEN /\ last' = log("pull_model", e, pco.sent, <<>>, FALSE)
                /\ conversations' = update_state(conversations, key, END)
           ELSE \E ok \in BOOLEAN :
                   IF ok
                   THEN /\ last' = log("pull_model", e,
                                       <<reply_text(models_text(catalog)),
                                         reply_text(PULL_PROMPT)>>,
                                       <<call("list", <<>>, <<>>, TRUE)>>, FALSE)
                        /\ conversations' = update_state(conversations, key, ASKING_MODEL)
                   ELSE /\ last' = log("pull_model", e, <<>>,
                                       <<call("list", <<>>, <<>>, FALSE)>>, TRUE)
                        /\ UNCHANGED conversations
    /\ UNCHANGED <<user_active_models, catalog, running, selected, othervars>>

\* store_model up to its call of ollama_client.pull, main.py:113-120.  For an
\* edited message update.message is None and line 116 raises.
StoreModelStart(e) ==
    /\ can_dispatch
    /\ route(e) = "store_model"
    /\ IF ~has_message(e)
       THEN /\ last' = log("store_model", e, <<>>, <<>>, TRUE)
            /\ UNCHANGED running
       ELSE LET model == strip(e.data)
            IN  /\ last' = log("store_model", e,
                               <<reply_text(downloading_text(model))>>, <<>>, FALSE)
                /\ running' = [handler |-> "store_model", event |-> e, model |-> model]
    /\ UNCHANGED <<user_active_models, conversations, catalog, selected, othervars>>

\* store_model without the return of line 125
store_model_always_ends(ok) == END

\* the state store_model returns, main.py:125, 127
store_model_result(ok) == IF ok THEN END ELSE ASKING_MODEL

\* store_model making the model it pulled the user's active model
store_model_activates(d, user, model, ok) == IF ok THEN dict_set(d, user, model) ELSE d

\* user_active_models after store_model, main.py:113-127: the handler has no
\* statement that writes it
store_model_active_models(d, user, model, ok) == d

\* store_model from the return of ollama_client.pull, main.py:120-127
StoreModelReturn ==
    /\ running.handler = "store_model"
    /\ \E ok \in BOOLEAN :
          LET model == running.model
          IN  /\ last' = [last EXCEPT
                    !.sent = Append(@, reply_text(IF ok THEN PULL_OK
                                                  ELSE pull_failed_text(model))),
                    !.calls = Append(@, call("pull", model, <<>>, ok))]
              /\ conversations' =
                     update_state(conversations, conversation_key(running.event),
                                  store_model_result(ok))
              /\ catalog' = IF ok /\ \A k \in 1..Len(catalog) : catalog[k] # model
                            THEN Append(catalog, model) ELSE catalog
              /\ user_active_models' =
                     store_model_active_models(user_active_models,
                                               running.event.user, model, ok)
    /\ running' = NoRun
    /\ UNCHANGED <<selected, othervars>>

\* cancel, main.py:129-132.  For an edited message update.message is None
\* and line 131 raises.
Cancel(e) ==
    /\ can_dispatch
    /\ route(e) = "cancel"
    /\ IF ~has_message(e)
       THEN /\ last' = log("cancel", e, <<>>, <<>>, TRUE)
            /\ UNCHANGED conversations
       ELSE /\ last' = log("cancel", e, <<reply_text(CANCELED)>>, <<>>, FALSE)
            /\ conversations' = update_state(conversations, conversation_key(e), END)
    /\ UNCHANGED <<user_active_models, catalog, running, selected, othervars>>

\* echo with the default model for every user
echo_model_default(user) == DEFAULT_MODEL

\* user_active_models.get(user_id, "llama3"), main.py:144
echo_model(user) ==
    IF user \in DOMAIN user_active_models THEN user_active_models[user]
    ELSE DEFAULT_MODEL

\* echo with the text of the exception added to the apology
echo_reply_detail(out) == IF out.ok THEN out.reply ELSE APOLOGY \o ERROR_DETAIL

\* the reply of main.py:146-156: the backend's, or the apology
echo_reply(out) == IF out.ok THEN out.reply ELSE APOLOGY

\* ollama_client.chat raises, or returns one of the replies of this run
ChatOutcomes == {[ok |-> FALSE, reply |-> <<>>]} \cup [ok : {TRUE}, reply : reply_pool]

\* the call of ollama_client.chat with what it returned
chat_call(model, content, out) ==
    [fn |-> "chat", model |-> model, content |-> content, ok |-> out.ok,
     reply |-> out.reply]

\* echo sending the reply as one message, whatever its length
echo_chunks_whole(reply) == <<reply>>

\* chunk_message(reply), main.py:158: chunk_size is MAX_MESSAGE_LENGTH
echo_chunks(reply) == chunk_message(reply, MAX_MESSAGE_LENGTH)

\* echo, main.py:140-160.  For an edited message update.message is None and
\* line 142 raises.
Echo(e) ==
    /\ can_dispatch
    /\ route(e) = "echo"
    /\ IF ~has_message(e)
       THEN last' = log("echo", e, <<>>, <<>>, TRUE)
       ELSE \E out \in ChatOutcomes :
               LET chunks == echo_chunks(echo_reply(out))
               IN  last' = log("echo", e,
                               [k \in 1..Len(chunks) |-> reply_text(chunks[k])],
                               <<chat_call(echo_model(e.user), e.data, out)>>,
                               FALSE)
    /\ UNCHANGED <<user_active_models, conversations, catalog, running, selected, othervars>>

\* no handler of main.py:186-192 accepts the update
Unhandled(e) ==
    /\ can_dispatch
    /\ route(e) = "none"
    /\ last' = log("none", e, <<>>, <<>>, FALSE)
    /\ UNCHANGED <<user_active_models, conversations, catalog, running, selected, othervars>>

----------------------------------------------------------------------------
(* The bot *)

EmptyDict == [x \in {} |-> x]

Init ==
    /\ user_active_models = EmptyDict
    /\ conversations = EmptyDict
    /\ catalog \in InitialCatalogs
    /\ running = NoRun
    /\ last = log("none", NoUpdate, <<>>, <<>>, FALSE)
    /\ selected = EmptyDict
    /\ cm_text = <<>>
    /\ cm_size = 1
    /\ cm_out = <<>>
    /\ cm_done = FALSE
    /\ queue = <<>>
    /\ answering = {}
    /\ overwritten = FALSE
    /\ reply_pool = Replies

Next ==
    \/ \E e \in Updates : SetModelCommand(e)
    \/ \E e \in Updates : HandleModelSelection(e)
    \/ \E e \in Updates : PullModel(e)
    \/ \E e \in Updates : StoreModelStart(e)
    \/ StoreModelReturn
    \/ \E e \in Updates : Cancel(e)
    \/ \E e \in Updates : Echo(e)
    \/ \E e \in Updates : Unhandled(e)

Spec == Init /\ [][Next]_vars

----------------------------------------------------------------------------
(* chunk_message on its own: every text up to MaxLen over two characters,  *)
(* every chunk size from 1 to MaxChunk                                     *)

Texts == UNION {[1..k -> {"a", "b"}] : k \in 0..MaxLen}

ChunkInit ==
    /\ user_active_models = EmptyDict
    /\ conversations = EmptyDict
    /\ catalog = <<>>
    /\ running = NoRun
    /\ last = log("none", NoUpdate, <<>>, <<>>, FALSE)
    /\ selected = EmptyDict
    /\ cm_text \in Texts
    /\ cm_size \in 1..MaxChunk
    /\ cm_out = <<>>
    /\ cm_done = FALSE
    /\ queue = <<>>
    /\ answering = {}
    /\ overwritten = FALSE
    /\ reply_pool = Replies

ChunkCall ==
    /\ ~cm_done
    /\ cm_out' = chunk_message(cm_text, cm_size)
    /\ cm_done' = TRUE
    /\ UNCHANGED <<cm_text, cm_size, botvars, selvars, reply_pool>>

ChunkNext == ChunkCall

ChunkSpec == ChunkInit /\ [][ChunkNext]_vars

----------------------------------------------------------------------------
(* Vocabulary of the properties *)

\* the two dicts agree on the key
same_entry(d1, d2, k) ==
    /\ k \in DOMAIN d1 <=> k \in DOMAIN d2
    /\ k \in DOMAIN d1 => d1[k] = d2[k]

\* AWAITING_MODEL_NAME: the conversation of the key is in state ASKING_MODEL
awaiting(convs, key) == key \in DOMAIN convs /\ convs[key] = ASKING_MODEL

\* the update enters the pull flow: the command or the "Load a new model" button
pull_entry(e) == is_command(e, "/pullmodel") \/ is_pull_button(e)

\* the handler run recorded in last made a gateway call that failed
call_failed(l) == \E k \in 1..Len(l.calls) : ~l.calls[k].ok

RECURSIVE concat(_)
concat(parts) == IF parts = <<>> THEN <<>> ELSE Head(parts) \o concat(Tail(parts))

\* handling of the update e is one step from the current state
Dispatch(e) ==
    \/ SetModelCommand(e)
    \/ HandleModelSelection(e)
    \/ PullModel(e)
    \/ StoreModelStart(e)
    \/ Cancel(e)
    \/ Echo(e)
    \/ Unhandled(e)

----------------------------------------------------------------------------
(* C1: a selection action of user u sets u's active model to the model of  *)
(* the action, and no other step changes u's entry: a read of u's active   *)
(* model returns that model until u's next selection action, and a         *)
(* selection action of u never changes the entry of another user.          *)
C1_ReadAfterWriteIsolated ==
    [][\A u \in Users :
          IF last'.handler = "handle_model_selection" /\ last'.event.user = u
          THEN /\ u \in DOMAIN user_active_models'
               /\ user_active_models'[u] = selection_model(last'.event.data)
          ELSE same_entry(user_active_models, user_active_models', u)]_vars

\* both users hold a selection, different ones, and a later update of another
\* kind has been handled
C1_Witness ==
    /\ Users \subseteq DOMAIN user_active_models
    /\ user_active_models["u1"] # user_active_models["u2"]
    /\ last.handler = "store_model"
    /\ last.calls # <<>>

(* C2: whatever selection, pull-flow and relay updates came before, the    *)
(* chat call of a relay of user u names the model that u's most recent     *)
(* selection action set, or "llama3" when u never made one; the relay of a *)
(* new message makes exactly one chat call.                                *)
C2_RelayModelResolution ==
    last.handler = "echo" =>
        LET u == last.event.user
            expected == IF u \in DOMAIN selected THEN selected[u] ELSE DEFAULT_MODEL
        IN  /\ \A k \in 1..Len(last.calls) :
                   last.calls[k].fn = "chat" /\ last.calls[k].model = expected
            /\ has_message(last.event) => Len(last.calls) = 1

\* a relay that used a selected model, after a model was pulled
C2_Witness ==
    /\ last.handler = "echo"
    /\ last.calls # <<>>
    /\ last.event.user \in DOMAIN selected
    /\ last.calls[1].model = <<"x">>
    /\ Len(catalog) > 2

(* C3: for every text s and chunk size n >= 1, the chunks of               *)
(* chunk_message(s, n) concatenated in order are s, every chunk has at     *)
(* most n characters and every chunk but the last has exactly n.           *)
C3_ChunkLossless ==
    cm_done =>
        /\ concat(cm_out) = cm_text
        /\ \A k \in 1..Len(cm_out) : Len(cm_out[k]) <= cm_size
        /\ \A k \in 1..(Len(cm_out) - 1) : Len(cm_out[k]) = cm_size

\* several chunks, the last one shorter
C3_Witness ==
    /\ cm_done
    /\ Len(cm_out) >= 2
    /\ Len(cm_out[Len(cm_out)]) < cm_size

(* C4: for a conversation in AWAITING_MODEL_NAME, a model-name submission  *)
(* whose pull fails leaves it in AWAITING_MODEL_NAME, and it leaves        *)
(* AWAITING_MODEL_NAME only by a successful pull or a cancel of its own.   *)
C4_PullRetryKeepsFlowOpen ==
    [][\A key \in ConversationKeys :
          awaiting(conversations, key) =>
              /\ (/\ running.handler = "store_model"
                  /\ conversation_key(running.event) = key
                  /\ running' = NoRun
                  /\ call_failed(last')) => awaiting(conversations', key)
              /\ ~awaiting(conversations', key) =>
                     /\ conversation_key(last'.event) = key
                     /\ ~last'.raised
                     /\ \/ last'.handler = "cancel"
                        \/ /\ last'.handler = "store_model"
                           /\ last'.calls # <<>>
                           /\ ~call_failed(last')]_vars

\* a pull has just failed and its user is still asked for a model name
C4_Witness ==
    /\ last.handler = "store_model"
    /\ running = NoRun
    /\ call_failed(last)
    /\ awaiting(conversations, conversation_key(last.event))

(* C5: when a user enters the pull flow from a private chat and the        *)
(* catalog listing fails, the failure is reported as a message, the prompt *)
(* for a model name is sent and the conversation is in AWAITING_MODEL_NAME.*)
C5_EntryReachesPromptOnListFailure ==
    (/\ last.handler = "pull_model"
     /\ last.event.chat = "private"
     /\ has_message(last.event)
     /\ call_failed(last)) =>
        /\ Len(last.sent) >= 2
        /\ last.sent[Len(last.sent)] = reply_text(PULL_PROMPT)
        /\ awaiting(conversations, conversation_key(last.event))

----------------------------------------------------------------------------
----------------------------------------------------------------------------
----------------------------------------------------------------------------
(* C8: while a user's model-name submission is inside the gateway pull,    *)
(* an update of every other user can be handled before the pull returns.   *)
C8_DownloadDoesNotBlockOthers ==
    running.handler = "store_model" =>
        \A u \in Users \ {running.event.user} :
            \E e \in Updates : e.user = u /\ ENABLED Dispatch(e)

(* C9: a failure of a backend call (catalog list, gateway pull, inference  *)
(* chat) is caught in its handler: the handler does not raise and sends a  *)
(* message about it.                                                       *)
C9_BackendFailuresCaught ==
    (running = NoRun /\ call_failed(last)) => ~last.raised /\ last.sent # <<>>

(* C10: when the chat call of a relay fails, the user receives exactly one *)
(* message, the fixed apology, and the session store and every             *)
(* conversation state stay as they were.                                   *)
C10_RelayFailureApology ==
    [][(last'.handler = "echo" /\ call_failed(last')) =>
           /\ last'.sent = <<reply_text(APOLOGY)>>
           /\ ~last'.raised
           /\ user_active_models' = user_active_models
           /\ conversations' = conversations]_vars

\* a relay failed for a user who has a selection, while a conversation is
\* in AWAITING_MODEL_NAME
C10_Witness ==
    /\ last.handler = "echo"
    /\ call_failed(last)
    /\ last.event.user \in DOMAIN user_active_models
    /\ conversations # EmptyDict

----------------------------------------------------------------------------
(* C11: no step of the pull flow (entry, model-name submission with a      *)
(* successful or a failed pull, cancel) changes the active model of any    *)
(* user; after a successful pull the user's active model is what it was.   *)
C11_PullLeavesSelections ==
    [][last'.handler \in {"pull_model", "store_model", "cancel"} =>
           user_active_models' = user_active_models]_vars

\* a pull has succeeded for a user who holds a selection
C11_Witness ==
    /\ last.handler = "store_model"
    /\ running = NoRun
    /\ last.calls # <<>>
    /\ ~call_failed(last)
    /\ last.event.user \in DOMAIN user_active_models

----------------------------------------------------------------------------
(* C12: a cancel input of a user whose conversation is in                  *)
(* AWAITING_MODEL_NAME sends the cancellation acknowledgement, makes no    *)
(* gateway call and returns the conversation to IDLE, so that the user's   *)
(* next plain text there is relayed as chat.                               *)
C12_CancelExitsFlow ==
    last.handler = "cancel" =>
        /\ last.sent = <<reply_text(CANCELED)>>
        /\ last.calls = <<>>
        /\ ~last.raised
        /\ ~awaiting(conversations, conversation_key(last.event))
        /\ \A e \in Updates :
               (is_text(e) /\ conversation_key(e) = conversation_key(last.event))
                   => route(e) = "echo"

----------------------------------------------------------------------------
----------------------------------------------------------------------------
(* C14: for every model-name submission in AWAITING_MODEL_NAME the         *)
(* download-started notice is sent before the gateway pull is called, and  *)
(* exactly one outcome notice follows: the success notice after a          *)
(* successful pull (the flow exits to IDLE), or the failure notice naming  *)
(* the trimmed model name after a failed one (the conversation stays in    *)
(* AWAITING_MODEL_NAME).                                                   *)
C14_PullAttemptMessages ==
    last.handler = "store_model" =>
        LET model == strip(last.event.data)
            key == conversation_key(last.event)
        IN  IF running # NoRun
            THEN /\ last.sent = <<reply_text(downloading_text(model))>>
                 /\ last.calls = <<>>
            ELSE /\ Len(last.calls) = 1
                 /\ last.calls[1].fn = "pull"
                 /\ last.calls[1].model = model
                 /\ Len(last.sent) = 2
                 /\ last.sent[1] = reply_text(downloading_text(model))
                 /\ last.sent[2] = IF last.calls[1].ok THEN reply_text(PULL_OK)
                                   ELSE reply_text(pull_failed_text(model))
                 /\ last.calls[1].ok <=> ~awaiting(conversations, key)

----------------------------------------------------------------------------
(* C15: the selection action that carries the token built for a model m,   *)
(* "setmodel:" followed by m, sets the user's active model to exactly m.   *)
C15_SelectionRoundTrip ==
    last.handler = "handle_model_selection" =>
        \A m \in ModelNames :
            last.event.data = button_data(m) =>
                /\ last.event.user \in DOMAIN user_active_models
                /\ user_active_models[last.event.user] = m

----------------------------------------------------------------------------
(* C16: the selection listing of user u in a private chat holds the        *)
(* catalog's models in the catalog's order, each with the token built for  *)
(* it, and a model is marked active if and only if its name is u's         *)
(* current active model; with no selection, or a selection that is not in  *)
(* the catalog, no entry is marked.                                        *)
C16_ListingMarksActive ==
    (/\ last.handler = "set_model_command"
     /\ last.event.chat = "private"
     /\ has_message(last.event)
     /\ ~call_failed(last)) =>
        /\ Len(last.sent) = 1
        /\ last.sent[1].text = SELECT_PROMPT
        /\ LET kb == last.sent[1].markup
               u  == last.event.user
           IN  /\ Len(kb) = Len(catalog) + 1
               /\ kb[Len(kb)].callback_data = PULL_BUTTON
               /\ \A k \in 1..Len(catalog) :
                      /\ kb[k].callback_data = <<"setmodel:">> \o catalog[k]
                      /\ kb[k].text =
                             catalog[k] \o <<" ">>
                                 \o (IF u \in DOMAIN selected /\ selected[u] = catalog[k]
                                     THEN <<"(check mark)">> ELSE <<>>)

\* a listing with one entry marked and another not, while the other user
\* holds a different selection
C16_Witness ==
    /\ last.handler = "set_model_command"
    /\ last.sent # <<>>
    /\ last.sent[1].text = SELECT_PROMPT
    /\ \E k \in 1..Len(catalog) : is_active(last.event.user, catalog[k])
    /\ \E k \in 1..Len(catalog) : ~is_active(last.event.user, catalog[k])
    /\ \E x \in DOMAIN user_active_models :
           /\ x # last.event.user
           /\ ~is_active(last.event.user, user_active_models[x])

----------------------------------------------------------------------------
(* C18: a step that handles an update of user A changes no conversation    *)
(* state of another user B: pull entry, model-name submission and cancel   *)
(* of A leave B in IDLE or in AWAITING_MODEL_NAME as B was.                *)
C18_PullStatePerUser ==
    [][\A key \in DOMAIN conversations \cup DOMAIN conversations' :
           key[3] # last'.event.user =>
               same_entry(conversations, conversations', key)]_vars

\* a user has left the pull flow while the other user is still asked for a
\* model name
C18_Witness ==
    /\ last.handler \in {"cancel", "store_model"}
    /\ running = NoRun
    /\ ~last.raised
    /\ ~awaiting(conversations, conversation_key(last.event))
    /\ \E u \in Users \ {last.event.user} : awaiting(conversations, <<"private", u, u>>)

----------------------------------------------------------------------------
(* Selection updates on their own, with the queue they wait in and the     *)
(* suspension point of their handler.  Telegram delivers the updates of a  *)
(* chat in order; the application takes the head of its update queue when  *)
(* can_dispatch holds.  handle_model_selection awaits query.answer()       *)
(* (main.py:85) before it stores the model (main.py:90).  Here selected is *)
(* the model of the update delivered last for each user.                   *)

SelectionUpdates == {e \in CallbackUpdates : is_select_button(e)}

SelectInit ==
    /\ user_active_models = EmptyDict
    /\ conversations = EmptyDict
    /\ catalog = <<>>
    /\ running = NoRun
    /\ last = log("none", NoUpdate, <<>>, <<>>, FALSE)
    /\ selected = EmptyDict
    /\ cm_text = <<>>
    /\ cm_size = 1
    /\ cm_out = <<>>
    /\ cm_done = FALSE
    /\ queue = <<>>
    /\ answering = {}
    /\ overwritten = FALSE
    /\ reply_pool = Replies

\* Telegram delivers a button press: it joins the update queue
Deliver(e) ==
    /\ Len(queue) < MaxQueue
    /\ queue' = Append(queue, e)
    /\ selected' = dict_set(selected, e.user, selection_model(e.data))
    /\ UNCHANGED <<user_active_models, conversations, catalog, running, last,
                   answering, overwritten, cmvars, reply_pool>>

\* handle_model_selection up to its await of query.answer(), main.py:82-85
SelectionAnswer ==
    /\ queue # <<>>
    /\ can_dispatch
    /\ route(Head(queue)) = "handle_model_selection"
    /\ queue' = Tail(queue)
    /\ answering' = answering \cup {Head(queue)}
    /\ last' = log("handle_model_selection", Head(queue), <<answer>>, <<>>, FALSE)
    /\ UNCHANGED <<user_active_models, conversations, catalog, running, selected,
                   overwritten, cmvars, reply_pool>>

\* handle_model_selection from the return of query.answer(), main.py:87-91
SelectionStore ==
    \E e \in answering :
        LET model == selection_model(e.data)
        IN  /\ answering' = answering \ {e}
            /\ user_active_models' =
                   handle_model_selection_store(user_active_models, e.user, model)
            /\ overwritten' = (overwritten \/ (/\ e.user \in DOMAIN user_active_models
                                               /\ user_active_models[e.user] # model))
            /\ last' = log("handle_model_selection", e,
                           <<answer, edit_message_text(selected_text(model))>>,
                           <<>>, FALSE)
            /\ UNCHANGED <<conversations, catalog, running, selected, queue, cmvars,
                           reply_pool>>

SelectNext ==
    \/ \E e \in SelectionUpdates : Deliver(e)
    \/ SelectionAnswer
    \/ SelectionStore

SelectSpec == SelectInit /\ [][SelectNext]_vars

(* C17: when the selection updates of a user are delivered in the order    *)
(* e1, ..., ek, the user's active model after all their handlers have      *)
(* finished is the model of ek, whatever updates of other users were       *)
(* delivered in between.                                                   *)
C17_LastDeliveredWins ==
    (queue = <<>> /\ answering = {}) =>
        \A u \in Users : same_entry(user_active_models, selected, u)

\* every handler has finished, both users hold a selection and a selection
\* has replaced an earlier, different one
C17_Witness ==
    /\ queue = <<>>
    /\ answering = {}
    /\ overwritten
    /\ Users \subseteq DOMAIN user_active_models

----------------------------------------------------------------------------
(* The relay with replies around the size of one Telegram message: empty,  *)
(* one character, MAX_MESSAGE_LENGTH, one more, and more than twice that   *)

ReplyLengths ==
    {0, 1, MAX_MESSAGE_LENGTH, MAX_MESSAGE_LENGTH + 1, 2 * MAX_MESSAGE_LENGTH + 1}
LongReplies == {[i \in 1..n |-> "a"] : n \in ReplyLengths}

RelayInit ==
    /\ user_active_models = EmptyDict
    /\ conversations = EmptyDict
    /\ catalog = <<>>
    /\ running = NoRun
    /\ last = log("none", NoUpdate, <<>>, <<>>, FALSE)
    /\ selected = EmptyDict
    /\ cm_text = <<>>
    /\ cm_size = 1
    /\ cm_out = <<>>
    /\ cm_done = FALSE
    /\ queue = <<>>
    /\ answering = {}
    /\ overwritten = FALSE
    /\ reply_pool = LongReplies

RelayNext ==
    \/ \E e \in Updates : HandleModelSelection(e)
    \/ \E e \in Updates : Echo(e)

RelaySpec == RelayInit /\ [][RelayNext]_vars

(* C19: when the chat call succeeds with reply r, the relay sends exactly  *)
(* ceil(len(r) / 4096) messages, in order the pieces of r: one message     *)
(* equal to r when 1 <= len(r) <= 4096, and no message when r is empty.    *)
C19_RelayMessageCount ==
    (last.handler = "echo" /\ last.calls # <<>> /\ last.calls[1].ok) =>
        LET r == last.calls[1].reply
            n == Len(last.sent)
        IN  /\ n * MAX_MESSAGE_LENGTH >= Len(r)
            /\ (n - 1) * MAX_MESSAGE_LENGTH < Len(r) \/ n = 0
            /\ \A k \in 1..n : last.sent[k].op = "reply_text"
            /\ concat([k \in 1..n |-> last.sent[k].text]) = r
            /\ (1 <= Len(r) /\ Len(r) <= MAX_MESSAGE_LENGTH) => last.sent = <<reply_text(r)>>
            /\ r = <<>> => last.sent = <<>>

\* a reply of more than two full messages was relayed in three
C19_Witness ==
    /\ last.handler = "echo"
    /\ last.calls # <<>>
    /\ last.calls[1].ok
    /\ Len(last.calls[1].reply) > 2 * MAX_MESSAGE_LENGTH
    /\ Len(last.sent) = 3

====
